---- MODULE Spec2Model ----
(***************************************************************************)
(* Model of the PDH bridge lobby (LFG) coordinator: the SQLite tables of   *)
(* database.js, the button handlers of modules/lfg.js, the teardown of     *)
(* bridge.js and the timers of index.js.                                   *)
(*                                                                         *)
(* Execution model: one Node.js process.  better-sqlite3 calls are         *)
(* synchronous, so every database function runs to completion inside one   *)
(* step.  An async handler is split at its `await`s: the code between two  *)
(* awaits is one atomic action, and any other ready task may run between   *)
(* two actions of the same handler.  An await on a call that issues no     *)
(* network request is resumed from the microtask queue, before any other   *)
(* handler runs, and does not end the action.  interaction.reply is taken  *)
(* to resolve; every other remote call may succeed or fail.                *)
(*                                                                         *)
(* One lobby post is followed from its creation to its teardown.           *)
(***************************************************************************)
EXTENDS Naturals, Integers, Sequences, FiniteSets, Bags, TLC

(***************************************************************************)
(* Bounds of the model                                                     *)
(***************************************************************************)
\* events from outside (button interactions and clock ticks) in one run
MaxEvents == 4
\* button handlers suspended at an await at the same time
\* calls of ensureWebhook on one channel
MaxCalls == 3
MaxInFlight == 2
\* clock ticks in one UTC day
TicksPerDay == 3
\* lifetime of a post in ticks (config.settings.lfgExpiryMinutes)
ExpiryTicks == 1

(***************************************************************************)
(* Program constants                                                       *)
(***************************************************************************)
\* createAndBroadcastLfg: const maxPlayers = 4
maxPlayers == 4
\* the character between date and time: 'T' in Date.toISOString(),
\* ' ' in SQLite's datetime('now')
CharT == 84
CharSpace == 32

\* the creator of the post, and the other users in the order of their first
\* button press (they differ in nothing else, so the order is fixed)
CreatorId == "c"
Others == <<"u1", "u2", "u3", "u4">>
Users == {CreatorId} \cup {Others[k] : k \in DOMAIN Others}
Guilds == {"g1", "g2"}
\* the guilds a bridge configuration can name
BridgeGuilds == Guilds \cup {"g3"}

\* the result of .get() on no row, and JavaScript's undefined and null
Null == [id |-> 0]
undefined == "undefined"
null == "null"

\* JavaScript truthiness of a value that is a string, null or undefined,
\* and the operator ||
Truthy(v) == v \notin {undefined, null, ""}
OrElse(v, d) == IF Truthy(v) THEN v ELSE d

Range(s) == {s[i] : i \in DOMAIN s}

\* JavaScript property read: a missing property reads as undefined
Prop(obj, key) == IF key \in DOMAIN obj THEN obj[key] ELSE undefined

(***************************************************************************)
(* Time and its two text formats                                           *)
(***************************************************************************)
\* a text is a sequence of character blocks; the zero-padded date prefix
\* (YYYY-MM-DD) and the time of day (HH:MM:SS) are one block each, their
\* text order being their numeric order
toISOString(t) == <<t \div TicksPerDay, CharT, t % TicksPerDay>>

datetimeNow(t) == <<t \div TicksPerDay, CharSpace, t % TicksPerDay>>

\* SQLite's BINARY collation on TEXT: the first differing block decides
RECURSIVE TextLeq(_, _)
TextLeq(a, b) ==
  IF a = <<>> THEN TRUE
  ELSE IF b = <<>> THEN FALSE
  ELSE IF Head(a) # Head(b) THEN Head(a) < Head(b)
  ELSE TextLeq(Tail(a), Tail(b))

(***************************************************************************)
(* The bridge configuration (bridge-config.json)                           *)
(***************************************************************************)
\* identifiers are strings; one bound channel, webhook, notify-role and
\* relayed message per guild
ChannelOf(g) == IF g = "g1" THEN "ch1" ELSE IF g = "g2" THEN "ch2" ELSE "ch3"
WebhookOf(g) == IF g = "g1" THEN "wh1" ELSE IF g = "g2" THEN "wh2" ELSE "wh3"
RoleOf(g) == IF g = "g1" THEN "r1" ELSE IF g = "g2" THEN "r2" ELSE "r3"
MessageOf(g) == IF g = "g1" THEN "m1" ELSE IF g = "g2" THEN "m2" ELSE "m3"

ChannelTypes == {"news", "lfg", "discussion"}

\* one entry of config.servers as handleSetup writes it: a channel id or
\* null and a webhook url or null for each channel type, a role id or null
\* for news and lfg
Server(ch, wh, role) ==
  [channels |-> [t \in ChannelTypes |-> ch],
   webhooks |-> [t \in ChannelTypes |-> wh],
   roles |-> [t \in {"news", "lfg"} |-> role]]

\* the configuration of the lobby: every guild is fully set up
configServers ==
  [g \in Guilds |-> Server(ChannelOf(g), WebhookOf(g), RoleOf(g))]

\* a configuration is config.servers with the insertion order of its keys,
\* which is the order of Object.entries (guild ids are not array indices)
LobbyConfig == [order |-> <<"g1", "g2">>, servers |-> configServers]

\* what a guild's entry can look like: fully set up, without a role, with
\* a channel whose webhook failed, with nothing bound, with a webhook left
\* over from a channel that is no longer bound
ServerShapes(g) ==
  {Server(ChannelOf(g), WebhookOf(g), RoleOf(g)),
   Server(ChannelOf(g), WebhookOf(g), null),
   Server(ChannelOf(g), null, RoleOf(g)),
   Server(null, null, null),
   Server(null, WebhookOf(g), null)}

Orders == {<<"g1", "g2", "g3">>, <<"g3", "g1", "g2">>}

Configs ==
  {[order |-> o, servers |-> sv] :
     o \in Orders,
     sv \in {f \in [BridgeGuilds -> UNION {ServerShapes(g) : g \in BridgeGuilds}] :
               \A g \in BridgeGuilds : f[g] \in ServerShapes(g)}}

\* faulty variant: the source guild is not skipped
getRelayTargets_NoExclude(config, channelType, excludeGuildId) ==
  LET Bound(g) ==
        /\ Truthy(Prop(config.servers[g].channels, channelType))
        /\ Truthy(Prop(config.servers[g].webhooks, channelType))
      kept == SelectSeq(config.order, Bound)
  IN [k \in DOMAIN kept |->
        [guildId |-> kept[k],
         channelId |-> config.servers[kept[k]].channels[channelType],
         webhookUrl |-> config.servers[kept[k]].webhooks[channelType],
         rolePing |-> OrElse(Prop(config.servers[kept[k]].roles, channelType),
                             null)]]

getRelayTargets(config, channelType, excludeGuildId) ==
  LET Bound(g) ==
        /\ g # excludeGuildId
        /\ Truthy(Prop(config.servers[g].channels, channelType))
        /\ Truthy(Prop(config.servers[g].webhooks, channelType))
      kept == SelectSeq(config.order, Bound)
  IN [k \in DOMAIN kept |->
        [guildId |-> kept[k],
         channelId |-> config.servers[kept[k]].channels[channelType],
         webhookUrl |-> config.servers[kept[k]].webhooks[channelType],
         rolePing |-> OrElse(Prop(config.servers[kept[k]].roles, channelType),
                             null)]]

(***************************************************************************)
(* database.js: a db is [posts, players, messages], three tables as        *)
(* sequences of rows in insertion order                                    *)
(***************************************************************************)
Res(ok, why, n, m) ==
  [success |-> ok, reason |-> why, currentPlayers |-> n, maxPlayers |-> m]

\* faulty variant: the row is returned whatever its expired flag
getLfgPost_IgnoreExpired(db, lfgPostId) ==
  IF \E i \in DOMAIN db.posts : db.posts[i].id = lfgPostId
  THEN db.posts[CHOOSE i \in DOMAIN db.posts : db.posts[i].id = lfgPostId]
  ELSE [id |-> 0]

getLfgPost(db, lfgPostId) ==
  IF \E i \in DOMAIN db.posts :
       db.posts[i].id = lfgPostId /\ db.posts[i].expired = 0
  THEN db.posts[CHOOSE i \in DOMAIN db.posts : db.posts[i].id = lfgPostId]
  ELSE Null

\* SELECT COUNT(*) FROM lfg_players WHERE lfg_post_id = ?
CountPlayers(db, postId) ==
  Cardinality({i \in DOMAIN db.players : db.players[i].lfg_post_id = postId})

HasPlayer(db, postId, userId) ==
  \E i \in DOMAIN db.players :
    db.players[i].lfg_post_id = postId /\ db.players[i].user_id = userId

\* UPDATE lfg_posts SET current_players = ? WHERE id = ?
SetCurrentPlayers(db, postId, n) ==
  [db EXCEPT !.posts =
     [i \in DOMAIN db.posts |->
        IF db.posts[i].id = postId
        THEN [db.posts[i] EXCEPT !.current_players = n]
        ELSE db.posts[i]]]

\* faulty variant: the newest row of the post is deleted, whoever it is
DeletePlayer_Newest(db, postId, userId) ==
  LET mine == {i \in DOMAIN db.players : db.players[i].lfg_post_id = postId}
      newest == CHOOSE i \in mine : \A j \in mine : j <= i
  IN IF mine = {} THEN db
     ELSE [db EXCEPT !.players =
             SelectSeq(db.players, LAMBDA r : r # db.players[newest])]

\* DELETE FROM lfg_players WHERE lfg_post_id = ? AND user_id = ?
DeletePlayer(db, postId, userId) ==
  [db EXCEPT !.players =
     SelectSeq(db.players,
               LAMBDA r : ~(r.lfg_post_id = postId /\ r.user_id = userId))]

InsertPlayer(db, postId, userId) ==
  [db EXCEPT !.players =
     Append(db.players, [lfg_post_id |-> postId, user_id |-> userId])]

\* faulty variant: no check of the cap before or after the INSERT
addLfgPlayer_NoCap(db, postId, userId) ==
  IF getLfgPost(db, postId) = Null
  THEN [db |-> db, ret |-> Res(FALSE, "post_not_found", 0, 0)]
  ELSE IF HasPlayer(db, postId, userId)
  THEN [db |-> db, ret |-> Res(FALSE, "already_joined", 0, 0)]
  ELSE LET db1 == InsertPlayer(db, postId, userId)
           newCount == CountPlayers(db1, postId)
       IN [db |-> SetCurrentPlayers(db1, postId, newCount),
           ret |-> Res(TRUE, "", newCount, getLfgPost(db, postId).max_players)]

\* faulty variant: no UNIQUE(lfg_post_id, user_id) on lfg_players
addLfgPlayer_NoUnique(db, postId, userId) ==
  LET post == getLfgPost(db, postId) IN
  IF post = Null
  THEN [db |-> db, ret |-> Res(FALSE, "post_not_found", 0, 0)]
  ELSE IF CountPlayers(db, postId) >= post.max_players
  THEN [db |-> db, ret |-> Res(FALSE, "lobby_full", 0, 0)]
  ELSE LET db1 == InsertPlayer(db, postId, userId)
           newCount == CountPlayers(db1, postId)
       IN [db |-> SetCurrentPlayers(db1, postId, newCount),
           ret |-> Res(TRUE, "", newCount, post.max_players)]

addLfgPlayer(db, postId, userId) ==
  LET post == getLfgPost(db, postId) IN
  IF post = Null
  THEN [db |-> db, ret |-> Res(FALSE, "post_not_found", 0, 0)]
  ELSE
    LET currentCount == CountPlayers(db, postId) IN
    IF currentCount >= post.max_players
    THEN [db |-> db, ret |-> Res(FALSE, "lobby_full", 0, 0)]
    ELSE IF HasPlayer(db, postId, userId)
    \* the INSERT violates UNIQUE(lfg_post_id, user_id) and throws
    THEN [db |-> db, ret |-> Res(FALSE, "already_joined", 0, 0)]
    ELSE
      LET db1 == InsertPlayer(db, postId, userId)
          newCount == CountPlayers(db1, postId)
      IN
      IF newCount > post.max_players
      THEN LET db2 == DeletePlayer(db1, postId, userId)
               correctedCount == CountPlayers(db2, postId)
           IN [db |-> SetCurrentPlayers(db2, postId, correctedCount),
               ret |-> Res(FALSE, "lobby_full", 0, 0)]
      ELSE [db |-> SetCurrentPlayers(db1, postId, newCount),
            ret |-> Res(TRUE, "", newCount, post.max_players)]

\* faulty variant: the creator is not added as a player
createLfgPost_NoCreator(db, creatorId, maxP, expiresAt) ==
  LET postId == Len(db.posts) + 1
      row == [id |-> postId, creator_id |-> creatorId, max_players |-> maxP,
              current_players |-> 1, expires_at |-> expiresAt, expired |-> 0]
  IN [db |-> [db EXCEPT !.posts = Append(db.posts, row)], ret |-> postId]

createLfgPost(db, creatorId, maxP, expiresAt) ==
  LET postId == Len(db.posts) + 1
      row == [id |-> postId, creator_id |-> creatorId, max_players |-> maxP,
              current_players |-> 1, expires_at |-> expiresAt, expired |-> 0]
      db1 == [db EXCEPT !.posts = Append(db.posts, row)]
  IN [db |-> addLfgPlayer(db1, postId, creatorId).db, ret |-> postId]

\* faulty variant: the row is deleted, current_players is not rewritten
removeLfgPlayer_NoRecount(db, postId, userId) ==
  IF HasPlayer(db, postId, userId)
  THEN LET db1 == DeletePlayer(db, postId, userId)
       IN [db |-> db1, ret |-> Res(TRUE, "", CountPlayers(db1, postId), 0)]
  ELSE [db |-> db, ret |-> Res(FALSE, "not_in_game", 0, 0)]

removeLfgPlayer(db, postId, userId) ==
  IF HasPlayer(db, postId, userId)
  THEN LET db1 == DeletePlayer(db, postId, userId)
           count == CountPlayers(db1, postId)
       IN [db |-> SetCurrentPlayers(db1, postId, count),
           ret |-> Res(TRUE, "", count, 0)]
  ELSE [db |-> db, ret |-> Res(FALSE, "not_in_game", 0, 0)]

\* faulty variant: the roster is cut down to the creator's row
getLfgPlayers_CreatorOnly(db, postId) ==
  SelectSeq(db.players,
            LAMBDA r : r.lfg_post_id = postId /\ r.user_id = CreatorId)

\* SELECT user_id, username ... ORDER BY joined_at
getLfgPlayers(db, postId) ==
  SelectSeq(db.players, LAMBDA r : r.lfg_post_id = postId)

addLfgMessage(db, lfgPostId, guildId, channelId, messageId) ==
  [db EXCEPT !.messages =
     Append(db.messages, [lfg_post_id |-> lfgPostId, guild_id |-> guildId,
                          channel_id |-> channelId, message_id |-> messageId])]

\* SELECT * FROM lfg_posts WHERE expired = 0 AND expires_at <= datetime('now')
getExpiredLfgPosts(db, t) ==
  SelectSeq(db.posts,
            LAMBDA p : p.expired = 0 /\ TextLeq(p.expires_at, datetimeNow(t)))

\* SELECT * FROM lfg_messages WHERE lfg_post_id = ?
getLfgMessages(db, lfgPostId) ==
  SelectSeq(db.messages, LAMBDA r : r.lfg_post_id = lfgPostId)

\* faulty variant: the UPDATE matches no row
markLfgExpired_Noop(db, lfgPostId) == db

markLfgExpired(db, lfgPostId) ==
  [db EXCEPT !.posts =
     [i \in DOMAIN db.posts |->
        IF db.posts[i].id = lfgPostId
        THEN [db.posts[i] EXCEPT !.expired = 1]
        ELSE db.posts[i]]]

(***************************************************************************)
(* State                                                                   *)
(***************************************************************************)
VARIABLES
  lfg_posts,     \* table lfg_posts
  lfg_players,   \* table lfg_players
  lfg_messages,  \* table lfg_messages (the ledger of remote copies)
  now,           \* the clock, in ticks
  bc,            \* the fan-out call (relayMessage or broadcastEmbed)
  remote,        \* the lobby cards that exist in the guilds' channels
  h,             \* the bag of suspended async tasks
  timers,        \* armed setTimeout callbacks of filled lobbies
  events,        \* button interactions and clock ticks so far
  seen,          \* how many of Others have pressed a button so far
  last,          \* the latest button interaction and its outcome
  race,          \* the Join outcomes so far, while nothing else interferes
  everLeft,      \* users whose Leave was accepted
  deleteIssued,  \* remote deletes issued so far
  editIssued,    \* remote edits issued so far
  roomCalls,     \* calls of createConvokeRoom so far
  dmLog,         \* direct messages attempted so far
  teardowns,     \* the kinds of teardown that have run so far
  lastSweep,     \* the latest run of cleanupExpiredPosts at this tick
  cfg,           \* bridge-config.json: config.servers
  webhooks,      \* the webhooks of a channel, in the order of fetchWebhooks
  calls,         \* the calls of ensureWebhook on that channel
  dm,            \* a call of sendConvokeDMs on its own
  side           \* the other operations taken on their own, one field each

vars == <<lfg_posts, lfg_players, lfg_messages, now, bc, remote, h, timers,
          events, seen, last, race, everLeft, deleteIssued, editIssued,
          roomCalls, dmLog, teardowns, lastSweep, cfg, webhooks, calls, dm, side>>

dbVars == <<lfg_posts, lfg_players, lfg_messages>>
logVars == <<deleteIssued, editIssued, roomCalls, dmLog>>
userVars == <<events, seen, last, race, everLeft>>
sweepVars == <<teardowns, lastSweep>>
bridgeVars == <<cfg, webhooks, calls, dm, side>>

DB == [posts |-> lfg_posts, players |-> lfg_players, messages |-> lfg_messages]

SetDB(db) ==
  /\ lfg_posts' = db.posts
  /\ lfg_players' = db.players
  /\ lfg_messages' = db.messages

\* the order of Object.entries(config.servers)
GuildOrder == LobbyConfig.order

\* client.guilds.cache and guild.channels.cache: the bot is in every guild
GuildCache == Guilds
ChannelCache(g) == {ChannelOf(g)}

\* the message a fulfilled webhook.send has created in the target's channel
Copy(target) ==
  [guildId |-> target.guildId, channelId |-> target.channelId,
   messageId |-> MessageOf(target.guildId)]

\* a suspended task: its kind, the await it is at and the local variables
\* it reads after that await
Task(k, p, n, m, ps, f) ==
  [kind |-> k, pc |-> p, count |-> n, max |-> m, players |-> ps, fill |-> f]

Tasks == BagToSet(h)
Suspend(t) == h (+) SetToBag({t})
Resume(t) == h (-) SetToBag({t})
Continue(t, t2) == Resume(t) (+) SetToBag({t2})

\* a new task can start while fewer than MaxInFlight are suspended
CanStart == BagCardinality(h) < MaxInFlight

NoEvent == [user |-> "", action |-> "", outcome |-> "", count |-> 0]
Event(u, a, o, n) == [user |-> u, action |-> a, outcome |-> o, count |-> n]

\* the id parsed from the button's custom id: the post that is followed
CardPostId == Len(lfg_posts)

(***************************************************************************)
(* bridge.js                                                               *)
(***************************************************************************)
\* faulty variant: a client is built for every call
getWebhookClient_NoCache(webhookCache, built, webhookUrl) ==
  [cache |-> [u \in DOMAIN webhookCache \cup {webhookUrl} |->
                IF u = webhookUrl THEN built + 1 ELSE webhookCache[u]],
   built |-> built + 1,
   client |-> built + 1]

\* getWebhookClient on the Map webhookCache; a WebhookClient is known by the
\* order in which it was built, built being the number built so far
getWebhookClient(webhookCache, built, webhookUrl) ==
  IF webhookUrl \in DOMAIN webhookCache
  THEN [cache |-> webhookCache, built |-> built,
        client |-> webhookCache[webhookUrl]]
  ELSE [cache |-> [u \in DOMAIN webhookCache \cup {webhookUrl} |->
                     IF u = webhookUrl THEN built + 1 ELSE webhookCache[u]],
        built |-> built + 1,
        client |-> built + 1]

\* the mentions a message text can hold: @everyone, a user, a role
Everyone == [class |-> "everyone", id |-> ""]
UserMention == [class |-> "users", id |-> "u1"]
RoleMention(r) == [class |-> "roles", id |-> r]

\* the texts users write, as the mentions in them: none, or every kind
Contents ==
  {{}, {Everyone, UserMention} \cup {RoleMention(RoleOf(g)) : g \in BridgeGuilds}}

\* the mentions of a payload that Discord expands into notifications:
\* those of a class listed in allowedMentions.parse and the roles listed in
\* allowedMentions.roles
Triggered(payload) ==
  LET allowed == payload.allowedMentions
      parse == IF "parse" \in DOMAIN allowed THEN allowed.parse ELSE {}
      roles == IF "roles" \in DOMAIN allowed THEN allowed.roles ELSE {}
  IN {m \in payload.content :
        m.class \in parse \/ (m.class = "roles" /\ m.id \in roles)}

\* faulty variant: the payload allows the roles written in the text
relayPayload_AllowContentRoles(content, pingRole, target) ==
  [content |-> content,
   allowedMentions |-> [roles |-> {m.id : m \in {x \in content : x.class = "roles"}}]]

\* relayMessage: the payload sent to one target
relayPayload(content, pingRole, target) ==
  IF pingRole /\ Truthy(target.rolePing)
  THEN [content |-> {RoleMention(target.rolePing)} \cup content,
        allowedMentions |-> [roles |-> {target.rolePing}]]
  ELSE [content |-> content, allowedMentions |-> [parse |-> {}]]

\* broadcastEmbed: the payload sent to one target (mentions inside an embed
\* are never expanded)
broadcastPayload(pingRole, target) ==
  IF pingRole /\ Truthy(target.rolePing)
  THEN [content |-> {RoleMention(target.rolePing)},
        allowedMentions |-> [roles |-> {target.rolePing}]]
  ELSE [content |-> {}, allowedMentions |-> [parse |-> {}]]

\* broadcastEmbed: getRelayTargets, then the source server once more when
\* options.includeSource names one that is set up
broadcastTargets(config, channelType, excludeGuildId, includeSource) ==
  LET targets == getRelayTargets(config, channelType, excludeGuildId)
      sourceServer == config.servers[includeSource]
  IN IF /\ Truthy(includeSource)
        /\ includeSource \in DOMAIN config.servers
        /\ Truthy(Prop(sourceServer.channels, channelType))
        /\ Truthy(Prop(sourceServer.webhooks, channelType))
     THEN Append(targets,
                 [guildId |-> includeSource,
                  channelId |-> sourceServer.channels[channelType],
                  webhookUrl |-> sourceServer.webhooks[channelType],
                  rolePing |-> OrElse(Prop(sourceServer.roles, channelType),
                                      null)])
     ELSE targets

\* a fan-out call: its arguments, its targets, the payload and the state of
\* the send to each target, and the list it returns
NoFanOut ==
  [pc |-> "none", fn |-> "", channelType |-> "", excludeGuildId |-> undefined,
   pingRole |-> FALSE, targets |-> <<>>, payloads |-> <<>>, status |-> <<>>, results |-> <<>>]

\* faulty variant: the sends are awaited one after the other, only the
\* first is started
Dispatch_Sequential(fn, channelType, excludeGuildId, pingRole, targets, payloads) ==
  [pc |-> "sending", fn |-> fn, channelType |-> channelType,
   excludeGuildId |-> excludeGuildId, pingRole |-> pingRole,
   targets |-> targets,
   payloads |-> payloads,
   status |-> [k \in DOMAIN targets |-> IF k = 1 THEN "pending" ELSE "waiting"],
   results |-> <<>>]

\* targets.map(async ...) runs every callback up to its webhook.send before
\* Promise.allSettled is awaited: all sends are started in the same step
Dispatch(fn, channelType, excludeGuildId, pingRole, targets, payloads) ==
  [pc |-> "sending", fn |-> fn, channelType |-> channelType,
   excludeGuildId |-> excludeGuildId, pingRole |-> pingRole,
   targets |-> targets,
   payloads |-> payloads, status |-> [k \in DOMAIN targets |-> "pending"],
   results |-> <<>>]

\* faulty variant: a rejected send is reported like a fulfilled one
Fulfilled_All(f) ==
  [k \in DOMAIN f.targets |->
     [guildId |-> f.targets[k].guildId,
      messageId |-> MessageOf(f.targets[k].guildId),
      channelId |-> f.targets[k].channelId]]

\* results.filter(r => r.status === 'fulfilled').map(r => r.value)
Fulfilled(f) ==
  LET idx == SelectSeq([k \in DOMAIN f.targets |-> k],
                       LAMBDA k : f.status[k] = "fulfilled")
  IN [n \in DOMAIN idx |->
        [guildId |-> f.targets[idx[n]].guildId,
         messageId |-> MessageOf(f.targets[idx[n]].guildId),
         channelId |-> f.targets[idx[n]].channelId]]

\* a webhook of a channel, and the null that ensureWebhook returns in place
\* of a url
BotUser == "bot"
Webhook(n, owner) == [id |-> n, owner |-> owner, url |-> [url |-> n]]
NoUrl == [url |-> 0]

\* the result of webhooks.find when no element matches
NoWebhook == [id |-> 0, owner |-> undefined, url |-> NoUrl]

\* the webhooks a channel can hold before the first call: none, one of an
\* administrator, one of the bot after one of an administrator, two of the
\* bot after one whose owner is not known
InitialWebhooks ==
  {<<>>,
   <<Webhook(1, "admin")>>,
   <<Webhook(1, "admin"), Webhook(2, BotUser)>>,
   <<Webhook(1, undefined), Webhook(2, BotUser), Webhook(3, BotUser)>>}

\* faulty variant: the owner is compared with the bot's name, which never
\* matches
findOwned_Never(fetched) == NoWebhook

\* webhooks.find(wh => wh.owner?.id === botUser.id)
findOwned(fetched) ==
  LET owned == SelectSeq(fetched, LAMBDA wh : wh.owner = BotUser)
  IN IF owned = <<>> THEN NoWebhook ELSE Head(owned)

\* a call of ensureWebhook: where it stands, what fetchWebhooks returned, how
\* many webhooks it has created, what it returned and whether it threw
NotCalled ==
  [pc |-> "idle", fetched |-> <<>>, failed |-> "", created |-> 0,
   ret |-> NoUrl, raised |-> FALSE, by |-> ""]

\* faulty variant: no catch, the error leaves ensureWebhook
Caught_Rethrown(call, request) ==
  [call EXCEPT !.pc = "returned", !.failed = request, !.raised = TRUE]

\* catch (err) { console.error(...); return null; }
Caught(call, request) ==
  [call EXCEPT !.pc = "returned", !.failed = request, !.ret = NoUrl]

\* faulty variant: the first request rejects and the rejection is rethrown
deleteAcrossServers_Throwing(messageMap) ==
  [issued |-> {}, threw |-> messageMap # <<>>]

\* faulty variant: the ids are read from the columns the rows do have
deleteAcrossServers_ByColumn(messageMap) ==
  [issued |->
     {[guildId |-> r.guild_id, channelId |-> r.channel_id,
       messageId |-> r.message_id] : r \in Range(messageMap)},
   threw |-> FALSE]

\* the requests that reach channel.messages.fetch / msg.delete; every error
\* is swallowed, nothing is thrown
deleteAcrossServers(messageMap) ==
  [issued |->
     {[guildId |-> Prop(r, "guildId"), channelId |-> Prop(r, "channelId"),
       messageId |-> Prop(r, "messageId")] :
        r \in {x \in Range(messageMap) :
                 /\ Prop(x, "guildId") \in GuildCache
                 /\ Prop(x, "channelId") \in ChannelCache(Prop(x, "guildId"))}},
   threw |-> FALSE]

DeleteOutcomes == {"deleted", "missing", "failed"}

(***************************************************************************)
(* modules/lfg.js                                                          *)
(***************************************************************************)
\* the edits updateAllLfgEmbeds issues: through the guild's webhook when the
\* config has one for the row's guild, else as a regular message edit
updateAllLfgEmbeds(db, postId) ==
  IF getLfgPost(db, postId) = Null THEN {}
  ELSE
    LET messages == getLfgMessages(db, postId)
        players == getLfgPlayers(db, postId)
        HasWebhook(g) == /\ g \in DOMAIN configServers
                         /\ Truthy(Prop(configServers[g].webhooks, "lfg"))
        Reachable(r) == /\ Prop(r, "guildId") \in GuildCache
                        /\ Prop(r, "channelId") \in ChannelCache(Prop(r, "guildId"))
    IN {[guildId |-> Prop(r, "guildId"), messageId |-> Prop(r, "messageId"),
         shown |-> Len(players)] :
          r \in {x \in Range(messages) :
                   HasWebhook(Prop(x, "guildId")) \/ Reachable(x)}}

\* sendConvokeDMs, step 2: the direct message names the players of the
\* roster and holds the room link, or the manual procedure when
\* createConvokeRoom returned nothing
dmMessage(players, gameUrl) ==
  [roster |-> [k \in DOMAIN players |-> players[k].user_id],
   link |-> IF Truthy(gameUrl) THEN gameUrl ELSE null,
   manual |-> ~Truthy(gameUrl)]

\* faulty variant: the first direct message that fails ends the loop and
\* the error leaves sendConvokeDMs
sendConvokeDMs_StopAtFailure(players, gameUrl, failing) ==
  LET Failed(k) == players[k].user_id \in failing
      Tried(k) == \A j \in 1..(k - 1) : ~Failed(j)
  IN [attempts |->
        {[to |-> players[k].user_id, message |-> dmMessage(players, gameUrl),
          ok |-> ~Failed(k)] : k \in {j \in DOMAIN players : Tried(j)}},
      threw |-> \E k \in DOMAIN players : Failed(k)]

\* sendConvokeDMs, step 3: one users.fetch and user.send per player of the
\* roster, each inside its own try/catch; failing is the set of users whose
\* direct message cannot be delivered
sendConvokeDMs(players, gameUrl, failing) ==
  [attempts |->
     {[to |-> players[k].user_id, message |-> dmMessage(players, gameUrl),
       ok |-> players[k].user_id \notin failing] : k \in DOMAIN players},
   threw |-> FALSE]

\* a call of sendConvokeDMs: its roster, what createConvokeRoom returned,
\* the users whose direct message fails, the attempts made, whether it threw
NoNotify ==
  [pc |-> "none", players |-> <<>>, gameUrl |-> undefined, failing |-> {},
   attempts |-> {}, threw |-> FALSE]

\* the rosters getLfgPlayers can return at a fill: the creator first, then
\* the players who joined and have not left, in the order they joined
Rosters ==
  {[k \in DOMAIN r |-> [lfg_post_id |-> 1, user_id |-> r[k]]] :
     r \in {s \in UNION {[1..n -> Users] : n \in 1..maxPlayers} :
             /\ s[1] = CreatorId
             /\ \A i, j \in DOMAIN s : i # j => s[i] # s[j]}}

(***************************************************************************)
(* modules/convoke.js                                                      *)
(***************************************************************************)
\* faulty variant: data.url is returned whatever it is
gameUrlOf_Unchecked(call, body) ==
  IF body.json # "object"
  THEN [call EXCEPT !.pc = "returned", !.body = body, !.ret = null]
  ELSE [call EXCEPT !.pc = "returned", !.body = body, !.ret = body.url]

\* const data = await response.json(); const gameUrl = data.url; a body
\* that is no JSON, or data.url of null, throws into the catch
gameUrlOf(call, body) ==
  IF body.json # "object"
  THEN [call EXCEPT !.pc = "returned", !.body = body, !.ret = null]
  ELSE [call EXCEPT !.pc = "returned", !.body = body,
                    !.ret = IF Truthy(body.url) THEN body.url ELSE null]

\* the operations taken on their own, before any of them is called.
\* room is a call of createConvokeRoom: its token and players, the answer
\* it met, what it returned and whether it threw
SideIdle ==
  [room |-> [pc |-> "none", token |-> undefined, players |-> <<>>,
             fetched |-> FALSE, status |-> 0,
             body |-> [json |-> "invalid", url |-> undefined],
             ret |-> null, raised |-> FALSE],
   binding |-> NoUrl,
   relay |-> [messages |-> <<>>, handled |-> {}],
   fanOut |-> [pc |-> "none", excludeGuildId |-> undefined,
               includeSource |-> undefined, targets |-> <<>>],
   clients |-> [cache |-> <<>>, built |-> 0, calls |-> 0, returned |-> {}],
   race |-> [db |-> [posts |-> <<>>, players |-> <<>>, messages |-> <<>>],
             attempts |-> <<>>]]

\* two calls of addLfgPlayer by two processes of the bot on one database
\* file: each statement is atomic, the calls interleave between statements.
\* An attempt holds its user, the statement it is at, the post and the
\* counts it has read, the users whose rows it deleted, the count it wrote
\* and its result
Attempt(u) ==
  [user |-> u, pc |-> "getLfgPost", post |-> Null, currentCount |-> 0,
   newCount |-> 0, deleted |-> {}, wrote |-> 0, reason |-> ""]

\* the Join outcomes are counted as long as every Join came from a user who
\* pressed no button before and met a live post, and no Leave was accepted
CleanRace == [clean |-> TRUE, ok |-> 0, lobby_full |-> 0]
Disturbed == [clean |-> FALSE, ok |-> 0, lobby_full |-> 0]
Count(r, outcome) ==
  IF r.clean /\ outcome \in {"ok", "lobby_full"}
  THEN [r EXCEPT ![outcome] = @ + 1]
  ELSE Disturbed

NoSweep == [ran |-> FALSE, selected |-> <<>>]

\* the state at start with config.servers = config
InitAll(config, channelWebhooks, notify, others) ==
  /\ side = others
  /\ cfg = config
  /\ dm = notify
  /\ webhooks = channelWebhooks
  /\ calls = [c \in 1..MaxCalls |-> NotCalled]
  /\ lfg_posts = <<>>
  /\ lfg_players = <<>>
  /\ lfg_messages = <<>>
  /\ now = 0
  /\ bc = NoFanOut
  /\ remote = {}
  /\ h = EmptyBag
  /\ timers = 0
  /\ events = 0
  /\ last = NoEvent
  /\ seen = 0
  /\ race = CleanRace
  /\ everLeft = {}
  /\ deleteIssued = {}
  /\ editIssued = {}
  /\ roomCalls = 0
  /\ dmLog = {}
  /\ teardowns = {}
  /\ lastSweep = NoSweep

InitWith(config, channelWebhooks, notify) ==
  InitAll(config, channelWebhooks, notify, SideIdle)

Init == InitWith(LobbyConfig, <<>>, NoNotify)

\* relayMessage, called by the MessageCreate handler for a message written
\* in a bridged channel of guild src
RelayMessage(src, channelType, pingRole, content) ==
  /\ bc.pc = "none"
  /\ LET targets == getRelayTargets(cfg, channelType, src)
         payloads == [k \in DOMAIN targets |->
                        relayPayload(content, pingRole, targets[k])]
         call == Dispatch("relayMessage", channelType, src, pingRole, targets,
                          payloads)
     IN bc' = IF targets = <<>> THEN [call EXCEPT !.pc = "done"] ELSE call
  /\ UNCHANGED <<now, remote, h, timers>>
  /\ UNCHANGED <<dbVars, userVars, logVars, sweepVars, bridgeVars>>

\* createAndBroadcastLfg up to the sends of broadcastEmbed
CreateAndBroadcastLfg ==
  /\ lfg_posts = <<>>
  /\ bc.pc = "none"
  /\ LET expiresAt == toISOString(now + ExpiryTicks)
         r == createLfgPost(DB, CreatorId, maxPlayers, expiresAt)
         targets == broadcastTargets(cfg, "lfg", undefined, undefined)
         payloads == [k \in DOMAIN targets |->
                        broadcastPayload(TRUE, targets[k])]
     IN /\ SetDB(r.db)
        /\ bc' = Dispatch("broadcastEmbed", "lfg", undefined, TRUE, targets,
                           payloads)
  /\ UNCHANGED <<now, remote, h, timers>>
  /\ UNCHANGED <<userVars, logVars, sweepVars, bridgeVars>>

\* one webhook.send of the fan-out settles
Deliver(i) ==
  /\ bc.pc = "sending"
  /\ i \in DOMAIN bc.targets
  /\ bc.status[i] = "pending"
  /\ \E ok \in BOOLEAN :
       /\ bc' = [bc EXCEPT !.status[i] = IF ok THEN "fulfilled" ELSE "rejected"]
       /\ remote' = IF ok THEN remote \cup {Copy(bc.targets[i])} ELSE remote
  /\ UNCHANGED <<now, h, timers>>
  /\ UNCHANGED <<dbVars, userVars, logVars, sweepVars, bridgeVars>>

\* for (const result of results) db.addLfgMessage(...)
RECURSIVE RecordResults(_, _, _)
RecordResults(db, postId, results) ==
  IF results = <<>> THEN db
  ELSE LET result == Head(results)
       IN RecordResults(addLfgMessage(db, postId, result.guildId,
                                      result.channelId, result.messageId),
                        postId, Tail(results))

Settled == \A k \in DOMAIN bc.status : bc.status[k] # "pending"

\* Promise.allSettled of broadcastEmbed has resolved: createAndBroadcastLfg
\* writes one ledger row per returned result
BroadcastDone ==
  /\ bc.pc = "sending"
  /\ bc.fn = "broadcastEmbed"
  /\ Settled
  /\ bc' = [bc EXCEPT !.pc = "done", !.results = Fulfilled(bc)]
  /\ SetDB(RecordResults(DB, CardPostId, Fulfilled(bc)))
  /\ UNCHANGED <<now, remote, h, timers>>
  /\ UNCHANGED <<userVars, logVars, sweepVars, bridgeVars>>

\* Promise.allSettled of relayMessage has resolved: the fulfilled results
\* are returned
RelayDone ==
  /\ bc.pc = "sending"
  /\ bc.fn = "relayMessage"
  /\ Settled
  /\ bc' = [bc EXCEPT !.pc = "done", !.results = Fulfilled(bc)]
  /\ UNCHANGED <<now, remote, h, timers>>
  /\ UNCHANGED <<dbVars, userVars, logVars, sweepVars, bridgeVars>>

\* ensureWebhook is called on the channel, by handleSetup or verifyWebhooks:
\* it runs up to `await channel.fetchWebhooks()`
EnsureWebhook(c) ==
  /\ calls[c].pc = "idle"
  /\ calls' = [calls EXCEPT ![c].pc = "fetching"]
  /\ UNCHANGED <<cfg, webhooks, dm, side>>
  /\ UNCHANGED <<now, bc, remote, h, timers>>
  /\ UNCHANGED <<dbVars, userVars, logVars, sweepVars>>

\* fetchWebhooks settles: on an error the catch returns null; a webhook of
\* the bot is returned as it is; else the call goes on to
\* `await channel.createWebhook(...)`
FetchWebhooks(c) ==
  /\ calls[c].pc = "fetching"
  /\ \E ok \in BOOLEAN :
       LET call == [calls[c] EXCEPT !.fetched = IF ok THEN webhooks ELSE <<>>]
           existing == findOwned(webhooks)
       IN calls' = [calls EXCEPT ![c] =
                      IF ~ok THEN Caught(call, "fetchWebhooks")
                      ELSE IF existing # NoWebhook
                      THEN [call EXCEPT !.pc = "returned", !.ret = existing.url]
                      ELSE [call EXCEPT !.pc = "creating"]]
  /\ UNCHANGED <<cfg, webhooks, dm, side>>
  /\ UNCHANGED <<now, bc, remote, h, timers>>
  /\ UNCHANGED <<dbVars, userVars, logVars, sweepVars>>

\* createWebhook settles: the new webhook's url is returned, or on an error
\* the catch returns null
CreateWebhook(c) ==
  /\ calls[c].pc = "creating"
  /\ \E ok \in BOOLEAN :
       LET webhook == Webhook(Len(webhooks) + 1, BotUser)
       IN IF ok
          THEN /\ webhooks' = Append(webhooks, webhook)
               /\ calls' = [calls EXCEPT ![c].pc = "returned",
                                         ![c].created = @ + 1,
                                         ![c].ret = webhook.url]
          ELSE /\ webhooks' = webhooks
               /\ calls' = [calls EXCEPT ![c] = Caught(@, "createWebhook")]
  /\ UNCHANGED <<cfg, dm, side>>
  /\ UNCHANGED <<now, bc, remote, h, timers>>
  /\ UNCHANGED <<dbVars, userVars, logVars, sweepVars>>

\* verifyWebhooks, after `await ensureWebhook(channel, readyClient.user)` for
\* one channel: side.binding stands for server.webhooks[channelType] of the
\* channel's guild, which is replaced, and the config saved, only when a url
\* came back and differs from it
VerifyWebhooks(c) ==
  /\ calls[c].pc = "returned"
  /\ calls[c].by = ""
  /\ ~calls[c].raised
  /\ calls' = [calls EXCEPT ![c].by = "verifyWebhooks"]
  /\ LET webhookUrl == calls[c].ret
     IN side' = IF webhookUrl # NoUrl /\ webhookUrl # side.binding
                THEN [side EXCEPT !.binding = webhookUrl]
                ELSE side
  /\ UNCHANGED <<cfg, webhooks, dm>>
  /\ UNCHANGED <<now, bc, remote, h, timers>>
  /\ UNCHANGED <<dbVars, userVars, logVars, sweepVars>>

\* handleSetup, after `await ensureWebhook(lfgChannel, botUser)`: serverData
\* is built with webhooks.lfg set to what came back, null included, and
\* setServer replaces the guild's entry with it
HandleSetup(c) ==
  /\ calls[c].pc = "returned"
  /\ calls[c].by = ""
  /\ ~calls[c].raised
  /\ calls' = [calls EXCEPT ![c].by = "handleSetup"]
  /\ LET lfgWebhook == calls[c].ret
     IN side' = [side EXCEPT !.binding = lfgWebhook]
  /\ UNCHANGED <<cfg, webhooks, dm>>
  /\ UNCHANGED <<now, bc, remote, h, timers>>
  /\ UNCHANGED <<dbVars, userVars, logVars, sweepVars>>

\* sendConvokeDMs: createConvokeRoom returns a link, or null after any
\* failure
RoomReturns ==
  /\ dm.pc = "room"
  /\ \E gameUrl \in {"url", null} :
       dm' = [dm EXCEPT !.pc = "sending", !.gameUrl = gameUrl]
  /\ UNCHANGED <<cfg, webhooks, calls, side>>
  /\ UNCHANGED <<now, bc, remote, h, timers>>
  /\ UNCHANGED <<dbVars, userVars, logVars, sweepVars>>

\* sendConvokeDMs: the loop over the players, for any set of users whose
\* direct message fails
NotifyPlayers ==
  /\ dm.pc = "sending"
  /\ \E failing \in SUBSET {dm.players[k].user_id : k \in DOMAIN dm.players} :
       LET sent == sendConvokeDMs(dm.players, dm.gameUrl, failing)
       IN dm' = [dm EXCEPT !.pc = "returned", !.failing = failing,
                           !.attempts = sent.attempts, !.threw = sent.threw]
  /\ UNCHANGED <<cfg, webhooks, calls, side>>
  /\ UNCHANGED <<now, bc, remote, h, timers>>
  /\ UNCHANGED <<dbVars, userVars, logVars, sweepVars>>

\* createConvokeRoom up to `await fetch(...)`: without a token it returns
\* null at once
CreateConvokeRoom ==
  /\ side.room.pc = "called"
  /\ side' = [side EXCEPT !.room.pc =
                 IF Truthy(side.room.token) THEN "fetch" ELSE "returned"]
  /\ UNCHANGED <<cfg, webhooks, calls, dm>>
  /\ UNCHANGED <<now, bc, remote, h, timers>>
  /\ UNCHANGED <<dbVars, userVars, logVars, sweepVars>>

\* fetch settles: a rejection goes to the catch, which returns null; a
\* status of 200 or 201 goes on to `await response.json()`, any other to
\* `await response.text()`
FetchSettles ==
  /\ side.room.pc = "fetch"
  /\ \/ side' = [side EXCEPT !.room.pc = "returned"]
     \/ \E status \in {200, 201, 204, 401, 429, 500} :
          side' = [side EXCEPT !.room.fetched = TRUE,
                               !.room.status = status,
                               !.room.pc = IF status \in {200, 201}
                                           THEN "json" ELSE "text"]
  /\ UNCHANGED <<cfg, webhooks, calls, dm>>
  /\ UNCHANGED <<now, bc, remote, h, timers>>
  /\ UNCHANGED <<dbVars, userVars, logVars, sweepVars>>

\* the body is read: response.json() of a success, or response.text() of
\* an error, whose own failure is caught, after which null is returned.  A
\* body is no JSON, the JSON null, or an object whose url is a link, empty
\* or missing
BodySettles ==
  /\ side.room.pc \in {"json", "text"}
  /\ \E body \in [json : {"invalid", "null", "object"},
                   url : {"url", "", undefined}] :
       side' = [side EXCEPT !.room =
                  IF side.room.pc = "json"
                  THEN gameUrlOf(side.room, body)
                  ELSE [side.room EXCEPT !.pc = "returned", !.body = body]]
  /\ UNCHANGED <<cfg, webhooks, calls, dm>>
  /\ UNCHANGED <<now, bc, remote, h, timers>>
  /\ UNCHANGED <<dbVars, userVars, logVars, sweepVars>>

\* the next statement of attempt p of addLfgPlayer
AddLfgPlayerStep(p) ==
  /\ p \in DOMAIN side.race.attempts
  /\ LET a == side.race.attempts[p]
         db == side.race.db
         postId == 1
         Goes(a2, db2) ==
           side' = [side EXCEPT !.race.attempts[p] = a2, !.race.db = db2]
     IN CASE a.pc = "getLfgPost" ->
               LET post == getLfgPost(db, postId)
               IN IF post = Null
                  THEN Goes([a EXCEPT !.pc = "done",
                                      !.reason = "post_not_found"], db)
                  ELSE Goes([a EXCEPT !.pc = "count", !.post = post], db)
          [] a.pc = "count" ->
               LET currentCount == CountPlayers(db, postId)
               IN IF currentCount >= a.post.max_players
                  THEN Goes([a EXCEPT !.pc = "done", !.reason = "lobby_full",
                                      !.currentCount = currentCount], db)
                  ELSE Goes([a EXCEPT !.pc = "insert",
                                      !.currentCount = currentCount], db)
          [] a.pc = "insert" ->
               IF HasPlayer(db, postId, a.user)
               THEN Goes([a EXCEPT !.pc = "done",
                                   !.reason = "already_joined"], db)
               ELSE Goes([a EXCEPT !.pc = "recount"],
                         InsertPlayer(db, postId, a.user))
          [] a.pc = "recount" ->
               LET newCount == CountPlayers(db, postId)
               IN Goes([a EXCEPT !.newCount = newCount,
                                 !.pc = IF newCount > a.post.max_players
                                        THEN "delete" ELSE "update"], db)
          [] a.pc = "delete" ->
               LET db2 == DeletePlayer(db, postId, a.user)
               IN Goes([a EXCEPT !.pc = "corrected",
                                 !.deleted = Range(db.players) \ Range(db2.players)],
                       db2)
          [] a.pc = "corrected" ->
               LET correctedCount == CountPlayers(db, postId)
               IN Goes([a EXCEPT !.pc = "done", !.reason = "lobby_full",
                                 !.wrote = correctedCount],
                       SetCurrentPlayers(db, postId, correctedCount))
          [] a.pc = "update" ->
               Goes([a EXCEPT !.pc = "done", !.reason = "ok",
                              !.wrote = a.newCount],
                    SetCurrentPlayers(db, postId, a.newCount))
          [] a.pc = "done" -> FALSE
  /\ UNCHANGED <<cfg, webhooks, calls, dm>>
  /\ UNCHANGED <<now, bc, remote, h, timers>>
  /\ UNCHANGED <<dbVars, userVars, logVars, sweepVars>>

\* a send of relayMessage or broadcastEmbed asks for the client of its
\* target's webhook url
GetWebhookClient(webhookUrl) ==
  /\ side.room.pc = "none"
  /\ side.race.attempts = <<>>
  /\ side.fanOut.pc = "none"
  /\ side.relay.messages = <<>>
  /\ side.clients.calls < MaxCalls
  /\ LET r == getWebhookClient(side.clients.cache, side.clients.built,
                               webhookUrl)
     IN side' = [side EXCEPT !.clients =
                   [cache |-> r.cache, built |-> r.built,
                    calls |-> side.clients.calls + 1,
                    returned |-> side.clients.returned \cup
                                  {[url |-> webhookUrl, client |-> r.client]}]]
  /\ UNCHANGED <<cfg, webhooks, calls, dm>>
  /\ UNCHANGED <<now, bc, remote, h, timers>>
  /\ UNCHANGED <<dbVars, userVars, logVars, sweepVars>>

\* faulty variant: messages of bots and of webhooks are not ignored
relayChannel_NoLoopGuard(message) ==
  IF message.channelType = "news"
  THEN IF message.owner THEN "news" ELSE "none"
  ELSE IF message.channelType = "lfg"
  THEN IF message.owner THEN "lfg" ELSE "none"
  ELSE IF message.channelType = "discussion"
  THEN IF message.allowed THEN "discussion" ELSE "none"
  ELSE "none"

\* the MessageCreate handler up to relayMessage: the channel type the
\* message is relayed on, or none.  channelType is what identifyChannel
\* found for the message's channel, owner whether the author is
\* env.ownerId, allowed what moderateMessage answered
relayChannel(message) ==
  IF message.bot THEN "none"
  ELSE IF message.webhookId THEN "none"
  ELSE IF message.channelType = "news"
  THEN IF message.owner THEN "news" ELSE "none"
  ELSE IF message.channelType = "lfg"
  THEN IF message.owner THEN "lfg" ELSE "none"
  ELSE IF message.channelType = "discussion"
  THEN IF message.allowed THEN "discussion" ELSE "none"
  ELSE "none"

\* the MessageCreate handler for message i of the bridged channels:
\* relayMessage sends it to the targets of getRelayTargets, and every send
\* that succeeds leaves in the target's channel a message of the target's
\* webhook, for which MessageCreate fires in turn
MessageCreate(i) ==
  /\ i \in DOMAIN side.relay.messages
  /\ i \notin side.relay.handled
  /\ LET message == side.relay.messages[i]
         channelType == relayChannel(message)
         targets == IF channelType = "none" THEN <<>>
                    ELSE getRelayTargets(cfg, channelType, message.guildId)
     IN \E sent \in SUBSET DOMAIN targets :
          LET idx == SelectSeq([k \in DOMAIN targets |-> k],
                               LAMBDA k : k \in sent)
              copies == [n \in DOMAIN idx |->
                           [guildId |-> targets[idx[n]].guildId,
                            channelType |-> channelType,
                            bot |-> TRUE, webhookId |-> TRUE,
                            owner |-> FALSE, allowed |-> message.allowed,
                            origin |-> message.origin, via |-> i]]
          IN side' = [side EXCEPT
                        !.relay.handled = @ \cup {i},
                        !.relay.messages = @ \o copies]
  /\ UNCHANGED <<cfg, webhooks, calls, dm>>
  /\ UNCHANGED <<now, bc, remote, h, timers>>
  /\ UNCHANGED <<dbVars, userVars, logVars, sweepVars>>

\* broadcastEmbed up to its sends: the targets it resolves for the options
\* it was called with
BroadcastEmbed ==
  /\ side.fanOut.pc = "called"
  /\ side' = [side EXCEPT
                !.fanOut.pc = "resolved",
                !.fanOut.targets =
                   broadcastTargets(cfg, "lfg", side.fanOut.excludeGuildId,
                                    side.fanOut.includeSource)]
  /\ UNCHANGED <<cfg, webhooks, calls, dm>>
  /\ UNCHANGED <<now, bc, remote, h, timers>>
  /\ UNCHANGED <<dbVars, userVars, logVars, sweepVars>>

\* a button can be pressed while some card of the post is on display; the
\* users who have not pressed one yet come in the order of Others
Fresh(u) == seen < Len(Others) /\ u = Others[seen + 1]

CanClick(u) ==
  /\ events < MaxEvents
  /\ lfg_posts # <<>>
  /\ remote # {}
  /\ \/ u = CreatorId
     \/ \E k \in DOMAIN Others : Others[k] = u /\ k <= seen + 1
  /\ events' = events + 1
  /\ seen' = IF Fresh(u) THEN seen + 1 ELSE seen

\* handleLfgButton, action "join", up to `await interaction.reply`
ClickJoin(u) ==
  /\ CanClick(u)
  /\ LET post == getLfgPost(DB, CardPostId)
         r == addLfgPlayer(DB, CardPostId, u)
     IN   IF post = Null
             THEN /\ last' = Event(u, "join", "expired", 0)
                  /\ race' = Disturbed
                  /\ UNCHANGED <<h, dbVars>>
             ELSE /\ SetDB(r.db)
                  /\ IF r.ret.success
                     THEN /\ CanStart
                          /\ h' = Suspend(Task("join", "reply",
                                               r.ret.currentPlayers,
                                               r.ret.maxPlayers, <<>>, 0))
                          /\ last' = Event(u, "join", "ok", r.ret.currentPlayers)
                          /\ race' = IF Fresh(u) THEN Count(race, "ok")
                                     ELSE Disturbed
                     ELSE /\ h' = h
                          /\ last' = Event(u, "join", r.ret.reason, 0)
                          /\ race' = IF Fresh(u) THEN Count(race, r.ret.reason)
                                     ELSE Disturbed
  /\ UNCHANGED <<now, bc, remote, timers, everLeft>>
  /\ UNCHANGED <<logVars, sweepVars>>
  /\ UNCHANGED bridgeVars

\* the reply has resolved: updateAllLfgEmbeds issues its edits, none of which
\* waits for the network (see updateAllLfgEmbeds), so the handler runs on to
\* its next await: if the join filled the lobby, it reads the roster and
\* calls createConvokeRoom (sendConvokeDMs up to its first await)
JoinUpdate(t) ==
  /\ t.kind = "join"
  /\ t.pc = "reply"
  /\ editIssued' = editIssued \cup updateAllLfgEmbeds(DB, CardPostId)
  /\ IF t.count >= t.max
     THEN /\ h' = Continue(t, [t EXCEPT !.pc = "room",
                                        !.players = getLfgPlayers(DB, CardPostId),
                                        !.fill = roomCalls + 1])
          /\ roomCalls' = roomCalls + 1
     ELSE /\ h' = Resume(t)
          /\ roomCalls' = roomCalls
  /\ UNCHANGED <<now, bc, remote, timers>>
  /\ UNCHANGED <<deleteIssued, dmLog>>
  /\ UNCHANGED <<dbVars, userVars, sweepVars>>
  /\ UNCHANGED bridgeVars

\* createConvokeRoom has returned a link or null: one direct message per
\* player of the roster read before, then setTimeout.  Which of the direct
\* messages fail changes neither the attempts nor the outcome of
\* sendConvokeDMs (NotifySpec takes every set of failing users): here none
\* or all of them fail
JoinNotify(t) ==
  /\ t.kind = "join"
  /\ t.pc = "room"
  /\ \E gameUrl \in {"url", null} :
       \E failing \in {{}, {t.players[k].user_id : k \in DOMAIN t.players}} :
         LET sent == sendConvokeDMs(t.players, gameUrl, failing)
         IN dmLog' = dmLog \cup
                       {[fill |-> t.fill, room |-> gameUrl, to |-> a.to,
                         message |-> a.message, threw |-> sent.threw] :
                          a \in sent.attempts}
  /\ timers' = timers + 1
  /\ h' = Resume(t)
  /\ UNCHANGED <<now, bc, remote>>
  /\ UNCHANGED <<deleteIssued, editIssued, roomCalls>>
  /\ UNCHANGED <<dbVars, userVars, sweepVars>>
  /\ UNCHANGED bridgeVars

\* handleLfgButton, action "leave", up to `await interaction.reply`
ClickLeave(u) ==
  /\ CanClick(u)
  /\ LET post == getLfgPost(DB, CardPostId)
         r == removeLfgPlayer(DB, CardPostId, u)
     IN   IF post = Null
             THEN /\ last' = Event(u, "leave", "expired", 0)
                  /\ UNCHANGED <<h, dbVars, everLeft, race>>
             ELSE IF u = post.creator_id
             THEN /\ last' = Event(u, "leave", "host_cannot_leave", 0)
                  /\ UNCHANGED <<h, dbVars, everLeft, race>>
             ELSE /\ SetDB(r.db)
                  /\ IF r.ret.success
                     THEN /\ CanStart
                          /\ h' = Suspend(Task("leave", "reply", 0, 0, <<>>, 0))
                          /\ last' = Event(u, "leave", "ok", r.ret.currentPlayers)
                          /\ everLeft' = everLeft \cup {u}
                          /\ race' = Disturbed
                     ELSE /\ h' = h
                          /\ last' = Event(u, "leave", r.ret.reason, 0)
                          /\ UNCHANGED <<everLeft, race>>
  /\ UNCHANGED <<now, bc, remote, timers>>
  /\ UNCHANGED <<logVars, sweepVars>>
  /\ UNCHANGED bridgeVars

\* the reply has resolved: updateAllLfgEmbeds issues its edits and the
\* handler ends
LeaveUpdate(t) ==
  /\ t.kind = "leave"
  /\ t.pc = "reply"
  /\ editIssued' = editIssued \cup updateAllLfgEmbeds(DB, CardPostId)
  /\ h' = Resume(t)
  /\ UNCHANGED <<now, bc, remote, timers>>
  /\ UNCHANGED <<deleteIssued, roomCalls, dmLog>>
  /\ UNCHANGED <<dbVars, userVars, sweepVars>>
  /\ UNCHANGED bridgeVars

\* whether deleteAcrossServers would throw on the ledger of the post
Threw(postId) == deleteAcrossServers(getLfgMessages(DB, postId)).threw

\* the three teardowns are alike: read the ledger, await deleteAcrossServers,
\* then markLfgExpired, which an exception of deleteAcrossServers would skip.
\* Each delete that is issued settles with an outcome of its own.  A call
\* that issues no request resolves without waiting for the network, so the
\* teardown is one step of the event loop.
Teardown(kind, postId) ==
  LET d == deleteAcrossServers(getLfgMessages(DB, postId))
  IN /\ deleteIssued' = deleteIssued \cup d.issued
     /\ \E outcome \in [d.issued -> DeleteOutcomes] :
          remote' = remote \ {c \in d.issued : outcome[c] = "deleted"}
     /\ IF Threw(postId)
        THEN UNCHANGED dbVars
        ELSE SetDB(markLfgExpired(DB, postId))
     /\ teardowns' = teardowns \cup {kind}

\* faulty variant: the creator check is missing
ClickCancel_AnyUser(u) ==
  /\ CanClick(u)
  /\ LET post == getLfgPost(DB, CardPostId)
     IN   IF post = Null
             THEN /\ last' = Event(u, "cancel", "expired", 0)
                  /\ UNCHANGED <<dbVars, remote, deleteIssued, teardowns>>
             ELSE /\ Teardown("cancel", CardPostId)
                  /\ last' = Event(u, "cancel",
                                   IF Threw(CardPostId)
                                   THEN "threw" ELSE "accepted", 0)
  /\ UNCHANGED <<now, bc, h, timers, race, everLeft, lastSweep>>
  /\ UNCHANGED <<editIssued, roomCalls, dmLog>>
  /\ UNCHANGED bridgeVars

\* handleLfgButton, action "cancel"
ClickCancel(u) ==
  /\ CanClick(u)
  /\ LET post == getLfgPost(DB, CardPostId)
     IN   IF post = Null
             THEN /\ last' = Event(u, "cancel", "expired", 0)
                  /\ UNCHANGED <<dbVars, remote, deleteIssued, teardowns>>
             ELSE IF u # post.creator_id
             THEN /\ last' = Event(u, "cancel", "not_creator", 0)
                  /\ UNCHANGED <<dbVars, remote, deleteIssued, teardowns>>
             ELSE /\ Teardown("cancel", CardPostId)
                  /\ last' = Event(u, "cancel",
                                   IF Threw(CardPostId)
                                   THEN "threw" ELSE "accepted", 0)
  /\ UNCHANGED <<now, bc, h, timers, race, everLeft, lastSweep>>
  /\ UNCHANGED <<editIssued, roomCalls, dmLog>>
  /\ UNCHANGED bridgeVars

\* the setTimeout callback of a filled lobby
TimerFire ==
  /\ timers > 0
  /\ timers' = timers - 1
  /\ Teardown("timer", CardPostId)
  /\ UNCHANGED <<now, bc, h, lastSweep>>
  /\ UNCHANGED <<editIssued, roomCalls, dmLog>>
  /\ UNCHANGED userVars
  /\ UNCHANGED bridgeVars

\* the clock starts when the post is created
Tick ==
  /\ lfg_posts # <<>>
  /\ events < MaxEvents
  /\ events' = events + 1
  /\ now' = now + 1
  /\ lastSweep' = NoSweep
  /\ UNCHANGED <<bc, remote, h, timers, teardowns>>
  /\ UNCHANGED <<seen, last, race, everLeft>>
  /\ UNCHANGED <<dbVars, logVars>>
  /\ UNCHANGED bridgeVars

\* cleanupExpiredPosts, run by setInterval: each post getExpiredLfgPosts
\* selects is torn down (one post is followed, so at most one is selected)
cleanupExpiredPosts ==
  /\ LET expired == getExpiredLfgPosts(DB, now)
     IN /\ lastSweep' = [ran |-> TRUE,
                         selected |-> [k \in DOMAIN expired |-> expired[k].id]]
        /\ IF expired = <<>>
           THEN UNCHANGED <<dbVars, remote, deleteIssued, teardowns>>
           ELSE Teardown("sweep", expired[1].id)
  /\ UNCHANGED <<now, bc, h, timers>>
  /\ UNCHANGED <<editIssued, roomCalls, dmLog>>
  /\ UNCHANGED userVars
  /\ UNCHANGED bridgeVars

Next ==
  \/ CreateAndBroadcastLfg
  \/ \E i \in 1..Cardinality(BridgeGuilds) + 1 : Deliver(i)
  \/ BroadcastDone
  \/ \E u \in Users : ClickJoin(u)
  \/ \E t \in Tasks : JoinUpdate(t)
  \/ \E t \in Tasks : JoinNotify(t)
  \/ \E u \in Users : ClickLeave(u)
  \/ \E t \in Tasks : LeaveUpdate(t)
  \/ \E u \in Users : ClickCancel(u)
  \/ TimerFire
  \/ Tick
  \/ cleanupExpiredPosts

Spec == Init /\ [][Next]_vars

\* the lobby from the point where the post has been created and delivered
\* to both guilds, its ledger rows are written and two users have joined,
\* one seat being left
RefillInit ==
  LET targets == broadcastTargets(LobbyConfig, "lfg", undefined, undefined)
      payloads == [k \in DOMAIN targets |-> broadcastPayload(TRUE, targets[k])]
      sent == [Dispatch("broadcastEmbed", "lfg", undefined, TRUE, targets,
                        payloads)
                 EXCEPT !.status = [k \in DOMAIN targets |-> "fulfilled"]]
      db0 == createLfgPost(SideIdle.race.db, CreatorId, maxPlayers,
                           toISOString(ExpiryTicks)).db
      db1 == RecordResults(db0, 1, Fulfilled(sent))
      db2 == addLfgPlayer(db1, 1, Others[1]).db
      db3 == addLfgPlayer(db2, 1, Others[2]).db
  IN /\ lfg_posts = db3.posts
     /\ lfg_players = db3.players
     /\ lfg_messages = db3.messages
     /\ bc = [sent EXCEPT !.pc = "done", !.results = Fulfilled(sent)]
     /\ remote = {Copy(targets[k]) : k \in DOMAIN targets}
     /\ seen = 2
     /\ last = Event(Others[2], "join", "ok", 3)
     /\ race = Disturbed
     /\ now = 0
     /\ h = EmptyBag
     /\ timers = 0
     /\ events = 0
     /\ everLeft = {}
     /\ deleteIssued = {}
     /\ editIssued = {}
     /\ roomCalls = 0
     /\ dmLog = {}
     /\ teardowns = {}
     /\ lastSweep = NoSweep
     /\ cfg = LobbyConfig
     /\ webhooks = <<>>
     /\ calls = [c \in 1..MaxCalls |-> NotCalled]
     /\ dm = NoNotify
     /\ side = SideIdle

RefillNext ==
  \/ \E u \in Users : ClickJoin(u)
  \/ \E t \in Tasks : JoinUpdate(t)
  \/ \E t \in Tasks : JoinNotify(t)
  \/ \E u \in Users : ClickLeave(u)
  \/ \E t \in Tasks : LeaveUpdate(t)
  \/ \E u \in Users : ClickCancel(u)
  \/ TimerFire
  \/ Tick
  \/ cleanupExpiredPosts

RefillSpec == RefillInit /\ [][RefillNext]_vars

\* the fan-out alone, for every configuration of Configs
FanOutInit == \E config \in Configs : InitWith(config, <<>>, NoNotify)

FanOutNext ==
  \/ \E src \in BridgeGuilds, channelType \in ChannelTypes,
        pingRole \in BOOLEAN, content \in Contents :
          RelayMessage(src, channelType, pingRole, content)
  \/ CreateAndBroadcastLfg
  \/ \E i \in 1..Cardinality(BridgeGuilds) + 1 : Deliver(i)
  \/ BroadcastDone
  \/ RelayDone

\* the calls of ensureWebhook on one channel, which may overlap, for every
\* content of the channel in InitialWebhooks
\* the Registry holds for the channel no endpoint, or the url of a webhook
\* that is on the channel, or one of a webhook that is not
WebhookInit ==
  \E initial \in InitialWebhooks :
    \E stored \in {NoUrl, Webhook(Len(initial), BotUser).url,
                   Webhook(Len(initial) + MaxCalls + 1, BotUser).url} :
      InitAll(LobbyConfig, initial, NoNotify,
              [SideIdle EXCEPT !.binding = stored])

WebhookNext ==
  \/ \E c \in 1..MaxCalls : EnsureWebhook(c)
  \/ \E c \in 1..MaxCalls : FetchWebhooks(c)
  \/ \E c \in 1..MaxCalls : CreateWebhook(c)
  \/ \E c \in 1..MaxCalls : VerifyWebhooks(c)
  \/ \E c \in 1..MaxCalls : HandleSetup(c)

WebhookSpec == WebhookInit /\ [][WebhookNext]_vars

\* sendConvokeDMs on its own, for every roster of Rosters
NotifyInit ==
  \E players \in Rosters :
    InitWith(LobbyConfig, <<>>, [NoNotify EXCEPT !.pc = "room",
                                                 !.players = players])

NotifyNext == RoomReturns \/ NotifyPlayers

NotifySpec == NotifyInit /\ [][NotifyNext]_vars

\* the operations taken on their own, one of them called in each run:
\* createConvokeRoom, for every token and every roster; two attempts of
\* addLfgPlayer on a post that has one or two seats left; getWebhookClient,
\* on the empty cache of a process that has just started; broadcastEmbed,
\* for every configuration and every value of its two options; the
\* MessageCreate handler, for one message written in a channel of a guild
\* by a user, a bot or a webhook
SideInit ==
  \/ InitAll(LobbyConfig, <<>>, NoNotify, SideIdle)
  \/ \E config \in Configs :
       \E excludeGuildId, includeSource \in BridgeGuilds \cup {undefined} :
         InitAll(config, <<>>, NoNotify,
                 [SideIdle EXCEPT !.fanOut.pc = "called",
                                  !.fanOut.excludeGuildId = excludeGuildId,
                                  !.fanOut.includeSource = includeSource])
  \/ \E token \in {undefined, "", "tok"}, players \in Rosters :
       InitAll(LobbyConfig, <<>>, NoNotify,
               [SideIdle EXCEPT !.room.pc = "called", !.room.token = token,
                                !.room.players = players])
  \/ \E config \in Configs :
       \E message \in [guildId : BridgeGuilds,
                        channelType : ChannelTypes \cup {"none"},
                        bot : BOOLEAN, webhookId : BOOLEAN,
                        owner : BOOLEAN, allowed : BOOLEAN,
                        origin : {1}, via : {0}] :
         /\ message.webhookId => message.bot
         /\ InitAll(config, <<>>, NoNotify,
                    [SideIdle EXCEPT !.relay.messages = <<message>>])
  \/ \E seated \in {<<Others[1]>>, <<Others[1], Others[2]>>} :
       LET db0 == createLfgPost(SideIdle.race.db, CreatorId, maxPlayers,
                                toISOString(ExpiryTicks)).db
           db1 == addLfgPlayer(db0, 1, seated[1]).db
           db2 == IF Len(seated) = 2 THEN addLfgPlayer(db1, 1, seated[2]).db
                  ELSE db1
       IN InitAll(LobbyConfig, <<>>, NoNotify,
                  [SideIdle EXCEPT !.race.db = db2,
                                   !.race.attempts = <<Attempt(Others[3]),
                                                       Attempt(Others[4])>>])

SideNext ==
  \/ CreateConvokeRoom
  \/ FetchSettles
  \/ BodySettles
  \/ \E p \in 1..2 : AddLfgPlayerStep(p)
  \/ \E g \in BridgeGuilds : GetWebhookClient(WebhookOf(g))
  \/ BroadcastEmbed
  \/ \E i \in 1..(Cardinality(BridgeGuilds) + 1) : MessageCreate(i)

SideSpec == SideInit /\ [][SideNext]_vars

\* every request of a webhook.send is answered or times out, and a
\* resolved await is resumed
FanOutSpec ==
  /\ FanOutInit
  /\ [][FanOutNext]_vars
  /\ WF_vars(\E i \in 1..Cardinality(BridgeGuilds) + 1 : Deliver(i))
  /\ WF_vars(BroadcastDone)
  /\ WF_vars(RelayDone)

TypeOK ==
  /\ Len(lfg_posts) <= 1
  /\ now \in 0..MaxEvents
  /\ events \in 0..MaxEvents

(***************************************************************************)
(* Properties                                                              *)
(***************************************************************************)
PostExists == lfg_posts # <<>>
ThePost == lfg_posts[CardPostId]
Live == PostExists /\ ThePost.expired = 0
Terminal == PostExists /\ ThePost.expired = 1
Seated == {lfg_players[i].user_id : i \in DOMAIN lfg_players}
Rows == CountPlayers(DB, CardPostId)

\* the step is the button interaction `action` of user u
Clicked(u, action) ==
  /\ events' = events + 1
  /\ now' = now
  /\ last'.user = u
  /\ last'.action = action

\* the ledger records of the post, as the remote copies they name
LedgerCopies ==
  {[guildId |-> r.guild_id, channelId |-> r.channel_id,
    messageId |-> r.message_id] :
     r \in Range(getLfgMessages(DB, CardPostId))}

\* the tick at which the post expires, read back from expires_at
ExpiryTime == ThePost.expires_at[1] * TicksPerDay + ThePost.expires_at[3]

\* C1: whatever the interleaving of join attempts, the number of participant
\* rows committed for a post never exceeds its seat limit
C1_SeatLimit ==
  \A i \in DOMAIN lfg_posts :
    CountPlayers(DB, lfg_posts[i].id) <= lfg_posts[i].max_players

\* a join was rejected on a full lobby while two accepted joins were still
\* awaiting their replies
C1_Witness ==
  /\ PostExists
  /\ Rows = maxPlayers
  /\ last.action = "join" /\ last.outcome = "lobby_full"
  /\ BagCardinality(h) = MaxInFlight

\* C2: when more distinct users than there are free seats have attempted to
\* join, the post holds exactly maxPlayers participants, as many attempts
\* succeeded as there were free seats (all but the creator's), and every
\* other attempt was rejected with lobby_full
C2_RaceForSeats ==
  (race.clean /\ race.ok + race.lobby_full > maxPlayers - 1) =>
    /\ Rows = maxPlayers
    /\ race.ok = maxPlayers - 1
    /\ race.lobby_full >= 1

C2_Witness ==
  /\ race.clean
  /\ race.ok = maxPlayers - 1
  /\ race.lobby_full = 1
  /\ Tasks # {}

\* C3 as stated: a seated user's further join on a live post is answered
\* already_joined whatever the seat count, and changes no row and no count
C3_AlreadyJoinedAlways ==
  [][\A u \in Users :
       (Clicked(u, "join") /\ Live /\ u \in Seated) =>
         /\ last'.outcome = "already_joined"
         /\ UNCHANGED dbVars]_vars

\* C3 amended: a seated user's further join on a live post is answered
\* already_joined while the lobby has a free seat and lobby_full once it is
\* full; in both cases no row and no count changes
C3_AlreadyJoinedOrFull ==
  [][\A u \in Users :
       (Clicked(u, "join") /\ Live /\ u \in Seated) =>
         /\ last'.outcome = IF Rows >= ThePost.max_players
                            THEN "lobby_full" ELSE "already_joined"
         /\ UNCHANGED dbVars]_vars

C3_Witness ==
  /\ Live
  /\ last.action = "join" /\ last.outcome = "already_joined"
  /\ last.user \in Seated
  /\ Rows > 1

\* C4: a Leave of a seated user other than the creator removes exactly that
\* user's row and stores the recount; a Leave of a user who is not seated
\* (a second Leave) is answered not_in_game and changes nothing; the stored
\* count is never below the number of rows
C4_Leave ==
  /\ [](PostExists => ThePost.current_players >= Rows)
  /\ [][\A u \in Users \ {CreatorId} :
          (Clicked(u, "leave") /\ Live) =>
            IF u \in Seated
            THEN /\ lfg_players' = SelectSeq(lfg_players,
                                             LAMBDA r : r.user_id # u)
                 /\ Len(lfg_players') = Len(lfg_players) - 1
                 /\ lfg_posts'[CardPostId].current_players = Len(lfg_players')
                 /\ last'.outcome = "ok"
                 /\ last'.count = Len(lfg_players')
            ELSE /\ last'.outcome = "not_in_game"
                 /\ UNCHANGED dbVars]_vars

\* a user whose Leave was accepted pressed Leave again
C4_Witness ==
  /\ last.action = "leave" /\ last.outcome = "not_in_game"
  /\ last.user \in everLeft
  /\ last.user \notin Seated

\* C5: a Leave of the creator is always rejected and changes no row and no
\* count; a Cancel of the creator on a live post, open or full, is accepted
\* and leaves the post terminal
C5_Creator ==
  [][/\ Clicked(CreatorId, "leave") =>
          /\ last'.outcome \in {"host_cannot_leave", "expired"}
          /\ UNCHANGED dbVars
     /\ (Clicked(CreatorId, "cancel") /\ Live) =>
          /\ last'.outcome = "accepted"
          /\ lfg_posts'[CardPostId].expired = 1]_vars

\* the creator cancelled a full lobby
C5_Witness ==
  /\ Terminal
  /\ last = Event(CreatorId, "cancel", "accepted", 0)
  /\ Rows = maxPlayers

\* C6: an accepted Cancel issues a delete for the remote copy named by
\* every ledger record of the post, and then marks the post terminal
C6_CancelDeletesCopies ==
  [][(Clicked(CreatorId, "cancel") /\ last'.outcome = "accepted") =>
       /\ LedgerCopies \subseteq deleteIssued'
       /\ lfg_posts'[CardPostId].expired = 1]_vars

C8_TerminalAbsorbing ==
  [][Terminal =>
       /\ Terminal'
       /\ \A u \in Users : \A a \in {"join", "leave", "cancel"} :
            Clicked(u, a) => /\ last'.outcome = "expired"
                             /\ UNCHANGED dbVars]_vars

C8_Witness ==
  /\ Terminal
  /\ last.action = "join" /\ last.outcome = "expired"

\* C9: on a fresh post, the joins of distinct users return the counts 2, 3
\* and 4 in that order; only the join that returned 4 goes on to the fill,
\* which happens once: one call of createConvokeRoom, then one direct
\* message to each of the 4 participants
C9_FillOnce ==
  race.clean =>
    /\ (last.action = "join" /\ last.outcome = "ok") =>
         last.count = race.ok + 1
    /\ roomCalls <= 1
    /\ roomCalls = 1 => race.ok = maxPlayers - 1
    /\ \A t \in Tasks : t.pc = "room" => t.count = maxPlayers
    /\ dmLog # {} =>
         /\ roomCalls = 1
         /\ \A d \in dmLog : d.fill = 1
         /\ {d.to : d \in dmLog} = Seated
         /\ CreatorId \in Seated
         /\ Cardinality(dmLog) = maxPlayers

C9_Witness ==
  /\ race.clean
  /\ last = Event(Others[3], "join", "ok", maxPlayers)
  /\ Cardinality(dmLog) = maxPlayers

\* C10: a sweep run after the expiry time of a post that is not terminal
\* selects the post and leaves it terminal
C10_SweepAfterExpiry ==
  (PostExists /\ lastSweep.ran /\ now > ExpiryTime) => Terminal

Sending == bc.pc = "sending"
Returned == bc.pc = "done"
SucceededTargets == {k \in DOMAIN bc.targets : bc.status[k] = "fulfilled"}
FailedTargets == {k \in DOMAIN bc.targets : bc.status[k] = "rejected"}
Outcome(k) ==
  [guildId |-> bc.targets[k].guildId, channelId |-> bc.targets[k].channelId,
   messageId |-> MessageOf(bc.targets[k].guildId)]

\* C11: a fan-out that has returned holds exactly one outcome per target
\* whose send succeeded, naming that target's guild, channel and the message
\* created there, and none for a failed target; the lobby creation has then
\* written exactly one ledger row per returned outcome, in the same order
C11_OneOutcomePerSuccess ==
  Returned =>
    /\ Len(bc.results) = Cardinality(SucceededTargets)
    /\ Range(bc.results) = {Outcome(k) : k \in SucceededTargets}
    /\ Range(bc.results) \subseteq remote
    /\ bc.fn = "broadcastEmbed" =>
         /\ Len(lfg_messages) = Len(bc.results)
         /\ \A n \in DOMAIN lfg_messages :
              /\ lfg_messages[n].lfg_post_id = CardPostId
              /\ lfg_messages[n].guild_id = bc.results[n].guildId
              /\ lfg_messages[n].channel_id = bc.results[n].channelId
              /\ lfg_messages[n].message_id = bc.results[n].messageId

\* a lobby broadcast to three targets of which exactly one failed has
\* returned, and two ledger rows are written
C11_Witness ==
  /\ Returned
  /\ bc.fn = "broadcastEmbed"
  /\ Len(bc.targets) = 3
  /\ Cardinality(FailedTargets) = 1
  /\ Len(lfg_messages) = 2

FanOutReturns == BroadcastDone \/ RelayDone

\* C12 as stated: while a fan-out is under way every send that has not
\* settled is in flight whatever the other targets do, an outcome that has
\* settled can be reported to the caller without waiting for the other
\* targets, and the call returns in the end
C12_NeverDelayed ==
  /\ [](Sending =>
          \A k \in DOMAIN bc.targets :
            bc.status[k] \in {"fulfilled", "rejected"} \/ ENABLED Deliver(k))
  /\ [](Sending /\ SucceededTargets \cup FailedTargets # {}
          => ENABLED FanOutReturns)
  /\ (Sending ~> Returned)

\* C12, amended: every send that has not settled is in flight whatever the
\* other targets do, the call returns once every target has settled, failed
\* targets included, and it does return in the end with every success
C12_DelayedOnlyByAllSettled ==
  /\ [](Sending =>
          \A k \in DOMAIN bc.targets :
            bc.status[k] \in {"fulfilled", "rejected"} \/ ENABLED Deliver(k))
  /\ [](Sending /\ SucceededTargets \cup FailedTargets = DOMAIN bc.targets
          => ENABLED FanOutReturns)
  /\ (Sending ~> (Returned /\ Len(bc.results) = Cardinality(SucceededTargets)))

\* a relay has returned the outcome of a target although another target
\* of the same call failed
C12_Witness ==
  /\ Returned
  /\ bc.fn = "relayMessage"
  /\ FailedTargets # {}
  /\ SucceededTargets # {}

\* C13: a Cancel pressed by anyone but the creator is rejected; the post's
\* expired flag, its players, its ledger rows and the remote copies are
\* what they were, and no remote delete is issued
C13_CancelByOther ==
  [][\A u \in Users \ {CreatorId} :
       Clicked(u, "cancel") =>
         /\ last'.outcome \in {"not_creator", "expired"}
         /\ UNCHANGED <<lfg_posts, lfg_players, lfg_messages>>
         /\ UNCHANGED <<remote, deleteIssued>>]_vars

\* a seated player who is not the creator pressed Cancel on a live post
\* that has remote copies
C13_Witness ==
  /\ Live
  /\ last.action = "cancel"
  /\ last.outcome = "not_creator"
  /\ last.user \in Seated \ {CreatorId}
  /\ remote # {}
  /\ lfg_messages # <<>>

\* C14: the step that creates a post leaves it not expired and open (one
\* seat taken of more than one), with exactly one player row, the creator's,
\* and a stored current_players of 1
C14_CreatedOpen ==
  [][(lfg_posts = <<>> /\ lfg_posts' # <<>>) =>
       /\ Len(lfg_posts') = 1
       /\ lfg_posts'[1].expired = 0
       /\ lfg_posts'[1].creator_id = CreatorId
       /\ lfg_posts'[1].current_players = 1
       /\ lfg_posts'[1].current_players < lfg_posts'[1].max_players
       /\ lfg_players' = <<[lfg_post_id |-> lfg_posts'[1].id,
                            user_id |-> CreatorId]>>]_vars

\* a post has just been created: its card is being sent and nobody has
\* pressed a button
C14_Witness ==
  /\ Live
  /\ Sending
  /\ events = 0
  /\ Seated = {CreatorId}
  /\ Rows = 1
  /\ ThePost.current_players = 1

\* C15: when sendConvokeDMs has returned, a direct message was attempted
\* for every player of the roster, once each, whichever of them failed;
\* every message names the whole roster; it holds the link when
\* createConvokeRoom returned one and the manual procedure when it returned
\* null; and no error has left sendConvokeDMs
C15_FillNotifications ==
  dm.pc = "returned" =>
    LET roster == [k \in DOMAIN dm.players |-> dm.players[k].user_id]
    IN /\ {a.to : a \in dm.attempts} = Range(roster)
       /\ Cardinality(dm.attempts) = Len(roster)
       /\ \A a \in dm.attempts :
            /\ a.message.roster = roster
            /\ a.ok <=> a.to \notin dm.failing
            /\ dm.gameUrl # null =>
                 a.message.link = dm.gameUrl /\ ~a.message.manual
            /\ dm.gameUrl = null =>
                 a.message.link = null /\ a.message.manual
       /\ ~dm.threw

\* createConvokeRoom returned null and the direct message to the second of
\* four players failed: the fourth player was still sent the manual
\* procedure
C15_Witness ==
  /\ dm.pc = "returned"
  /\ Len(dm.players) = maxPlayers
  /\ dm.gameUrl = null
  /\ dm.failing = {dm.players[2].user_id}
  /\ \E a \in dm.attempts :
       a.to = dm.players[maxPlayers].user_id /\ a.ok /\ a.message.manual

\* C16: when the timer armed by the filling Join fires, a delete is issued
\* for the remote copy named by every ledger record of the post and the post
\* is left terminal, whatever has happened to the post since the fill
C16_FilledTornDown ==
  [][timers' < timers =>
       /\ LedgerCopies \subseteq deleteIssued'
       /\ lfg_posts'[CardPostId].expired = 1]_vars

\* C17: the targets of a fan-out are exactly the guilds of the
\* configuration whose channel and webhook for the channel type are both
\* set and that are not the excluded guild, each once, in the insertion
\* order of the configuration, with that guild's channel and webhook
C17_RelayTargets ==
  bc.pc # "none" =>
    LET type == bc.channelType
        Qualifies(g) == /\ g # bc.excludeGuildId
                        /\ cfg.servers[g].channels[type] # null
                        /\ cfg.servers[g].webhooks[type] # null
        Pos(g) == CHOOSE i \in DOMAIN cfg.order : cfg.order[i] = g
    IN /\ {bc.targets[k].guildId : k \in DOMAIN bc.targets}
            = {g \in Range(cfg.order) : Qualifies(g)}
       /\ \A i, j \in DOMAIN bc.targets :
            i < j => Pos(bc.targets[i].guildId) < Pos(bc.targets[j].guildId)
       /\ \A k \in DOMAIN bc.targets :
            /\ bc.targets[k].channelId
                 = cfg.servers[bc.targets[k].guildId].channels[type]
            /\ bc.targets[k].webhookUrl
                 = cfg.servers[bc.targets[k].guildId].webhooks[type]

\* a message written in g1, which is fully set up and listed between g3 and
\* g2, is relayed to g3 and g2 in that order
C17_Witness ==
  /\ bc.fn = "relayMessage"
  /\ bc.excludeGuildId = "g1"
  /\ cfg.order = <<"g3", "g1", "g2">>
  /\ cfg.servers["g1"].channels[bc.channelType] # null
  /\ cfg.servers["g1"].webhooks[bc.channelType] # null
  /\ [k \in DOMAIN bc.targets |-> bc.targets[k].guildId] = <<"g3", "g2">>

\* C18: no payload of a fan-out lets Discord expand mentions by class; the
\* only mention a payload can trigger is the notify-role of the guild it is
\* sent to, and it does so exactly when pingRole was asked for and that
\* guild has a role for the channel type; the role of another guild is
\* never triggered, whatever the relayed text holds
C18_MentionsSafe ==
  bc.pc # "none" =>
    \A k \in DOMAIN bc.targets :
      LET payload == bc.payloads[k]
          roles == cfg.servers[bc.targets[k].guildId].roles
          own == IF bc.channelType \in DOMAIN roles /\ roles[bc.channelType] # null
                 THEN {RoleMention(roles[bc.channelType])}
                 ELSE {}
      IN /\ "parse" \in DOMAIN payload.allowedMentions =>
              payload.allowedMentions.parse = {}
         /\ "roles" \in DOMAIN payload.allowedMentions =>
              payload.allowedMentions.roles \subseteq {m.id : m \in own}
         /\ Triggered(payload) = IF bc.pingRole THEN own ELSE {}
         /\ \A g \in BridgeGuilds \ {bc.targets[k].guildId} :
              RoleMention(RoleOf(g)) \notin Triggered(payload)

\* a text that mentions @everyone and the roles of all guilds is relayed
\* with pingRole to a guild that has a role: only that role is triggered
C18_Witness ==
  /\ bc.fn = "relayMessage"
  /\ bc.pingRole
  /\ \E k \in DOMAIN bc.targets :
       /\ Everyone \in bc.payloads[k].content
       /\ \A g \in BridgeGuilds : RoleMention(RoleOf(g)) \in bc.payloads[k].content
       /\ Triggered(bc.payloads[k])
            = {RoleMention(RoleOf(bc.targets[k].guildId))}

OwnedIn(hooks) == {k \in DOMAIN hooks : hooks[k].owner = BotUser}
ReturnedCalls == {c \in DOMAIN calls : calls[c].pc = "returned"}
FetchedCalls == {c \in ReturnedCalls : calls[c].failed # "fetchWebhooks"}

\* C19: a call of ensureWebhook that found a webhook of the bot on the
\* channel has created none and has returned the first such webhook, the
\* same one for every such call; a call that found none and whose
\* createWebhook succeeded has created exactly one webhook, which is of the
\* bot, is on the channel and was not there before, and has returned it
C19_EnsureIdempotent ==
  /\ \A c \in FetchedCalls :
       LET call == calls[c]
           owned == OwnedIn(call.fetched)
           first == CHOOSE k \in owned : \A j \in owned : k <= j
       IN IF owned # {}
          THEN /\ call.created = 0
               /\ call.ret = call.fetched[first].url
          ELSE call.failed = "" =>
                 /\ call.created = 1
                 /\ \E k \in OwnedIn(webhooks) : webhooks[k].url = call.ret
                 /\ \A k \in DOMAIN call.fetched : call.fetched[k].url # call.ret
  /\ \A c, d \in FetchedCalls :
       (OwnedIn(calls[c].fetched) # {} /\ OwnedIn(calls[d].fetched) # {})
         => calls[c].ret = calls[d].ret

\* on a channel that held no webhook of the bot, one call has created a
\* webhook and two later calls have returned that webhook, creating none
C19_Witness ==
  /\ OwnedIn(webhooks) = {Len(webhooks)}
  /\ \E c \in ReturnedCalls : calls[c].created = 1
  /\ Cardinality({c \in ReturnedCalls :
                    /\ calls[c].created = 0
                    /\ OwnedIn(calls[c].fetched) # {}
                    /\ calls[c].ret = webhooks[Len(webhooks)].url}) = 2

\* C20: a call of ensureWebhook whose fetchWebhooks or createWebhook failed
\* has returned null, and no call has thrown
C20_EnsureNeverThrows ==
  \A c \in DOMAIN calls :
    /\ ~calls[c].raised
    /\ calls[c].failed # "" => /\ calls[c].pc = "returned"
                               /\ calls[c].ret = NoUrl
                               /\ calls[c].created = 0

\* one call has failed in fetchWebhooks and another in createWebhook; both
\* have returned null
C20_Witness ==
  /\ \E c \in ReturnedCalls :
       calls[c].failed = "fetchWebhooks" /\ calls[c].ret = NoUrl
  /\ \E c \in ReturnedCalls :
       calls[c].failed = "createWebhook" /\ calls[c].ret = NoUrl

\* C21: createConvokeRoom never throws; what it returns is a url only when
\* the provider answered with a 2xx status and a JSON object holding that
\* url, and null when the token is missing, when the request failed, when
\* the status is no success, when the body is no JSON object and when the
\* object holds no url
C21_RoomOrNull ==
  LET call == side.room
  IN /\ ~call.raised
     /\ call.pc = "returned" =>
          /\ call.ret # null =>
               /\ call.status \in 200..299
               /\ call.body.json = "object"
               /\ call.body.url = call.ret
               /\ call.ret \notin {"", undefined}
          /\ ~Truthy(call.token) => call.ret = null
          /\ ~call.fetched => call.ret = null
          /\ call.status \notin 200..299 => call.ret = null
          /\ call.body.json # "object" => call.ret = null
          /\ call.body.url \in {"", undefined} => call.ret = null
          /\ (call.status \in {200, 201} /\ call.body.json = "object"
                /\ call.body.url = "url") => call.ret = "url"

\* the provider answered 200 with an object that holds an empty url: null
\* was returned
C21_Witness ==
  /\ side.room.pc = "returned"
  /\ side.room.status = 200
  /\ side.room.body = [json |-> "object", url |-> ""]
  /\ side.room.ret = null

\* C22: of two attempts of addLfgPlayer that both passed the first count
\* with one seat left, at most one returns success; an attempt whose second
\* count exceeded the limit has deleted its own row and no other, has
\* written a count within the limit and has returned lobby_full; no attempt
\* ever deletes the row of another user, and once all have returned the post
\* holds no more rows than the limit, with the row of every attempt that
\* succeeded
C22_RacingJoins ==
  LET both == side.race
      A == both.attempts
      Done(p) == A[p].pc = "done"
      Passed(p) == A[p].pc \notin {"getLfgPost", "count"}
                     /\ A[p].currentCount = maxPlayers - 1
      Row(p) == [lfg_post_id |-> 1, user_id |-> A[p].user]
  IN /\ (\A p \in DOMAIN A : Passed(p)) =>
          Cardinality({p \in DOMAIN A : Done(p) /\ A[p].reason = "ok"}) <= 1
     /\ \A p \in DOMAIN A :
          /\ A[p].deleted \subseteq {Row(p)}
          /\ (Done(p) /\ A[p].newCount > maxPlayers) =>
               /\ A[p].reason = "lobby_full"
               /\ A[p].deleted = {Row(p)}
               /\ Row(p) \notin Range(both.db.players)
               /\ A[p].wrote <= maxPlayers
          /\ (Done(p) /\ A[p].reason = "ok") =>
               Row(p) \in Range(both.db.players)
     /\ (A # <<>> /\ \A p \in DOMAIN A : Done(p)) =>
          CountPlayers(both.db, 1) <= maxPlayers

\* both attempts counted three players; one has succeeded, the other has
\* rolled its row back and returned lobby_full
C22_Witness ==
  LET A == side.race.attempts
  IN /\ A # <<>>
     /\ \A p \in DOMAIN A : A[p].pc = "done" /\ A[p].currentCount = maxPlayers - 1
     /\ \E p, q \in DOMAIN A :
          /\ A[p].reason = "ok"
          /\ A[q].reason = "lobby_full"
          /\ A[q].newCount = maxPlayers + 1
          /\ A[q].deleted # {}
     /\ CountPlayers(side.race.db, 1) = maxPlayers

\* C23: once the teardown of a Cancel has run, no step adds a participant
\* row: a Join that arrives afterwards is answered as expired
C23_NoJoinAfterCancel ==
  [][("cancel" \in teardowns) =>
       /\ Range(lfg_players') \subseteq Range(lfg_players)
       /\ (last' # last /\ last'.action = "join") => last'.outcome = "expired"]_vars

\* a user has pressed Join after the creator's Cancel tore the post down,
\* while the card was still shown
C23_Witness ==
  /\ "cancel" \in teardowns
  /\ Terminal
  /\ last.action = "join"
  /\ last.outcome = "expired"
  /\ last.user \notin Seated

C26_LeaveOnlyWhileOpen ==
  [][\A u \in Users :
       (Clicked(u, "leave") /\ last'.outcome = "ok") =>
          /\ Live
          /\ Rows < maxPlayers]_vars

\* C27: once the handler of an accepted Join or Leave on a live post has
\* run to its end, an edit showing the new number of players has been issued
\* to the remote copy named by every ledger record of the post
C27_EditsReachEveryCopy ==
  (/\ Live
   /\ h = EmptyBag
   /\ last.action \in {"join", "leave"}
   /\ last.outcome = "ok") =>
     \A c \in LedgerCopies :
       \E e \in editIssued :
         /\ e.guildId = c.guildId
         /\ e.messageId = c.messageId
         /\ e.shown = last.count

\* C29: when a caller of ensureWebhook, verifyWebhooks or handleSetup, gets
\* null back, the endpoint the Registry holds for the channel is what it was
C29_BindingKeptOnFailure ==
  [][\A c \in DOMAIN calls :
       (calls[c].by = "" /\ calls'[c].by # "" /\ calls[c].ret = NoUrl) =>
          side'.binding = side.binding]_vars

\* C30: the cache holds as many clients as were ever built, one for each
\* url asked for; every call for a url has returned the client the cache
\* holds for it now, so all calls for one url returned the same client and
\* no entry was replaced
C30_OneClientPerEndpoint ==
  LET c == side.clients
  IN /\ c.built = Cardinality(DOMAIN c.cache)
     /\ DOMAIN c.cache = {r.url : r \in c.returned}
     /\ \A r \in c.returned : c.cache[r.url] = r.client
     /\ \A r1, r2 \in c.returned : r1.url = r2.url => r1.client = r2.client
     /\ \A u1, u2 \in DOMAIN c.cache : u1 # u2 => c.cache[u1] # c.cache[u2]

\* three calls were made for two urls: one url was asked for twice
C30_Witness ==
  /\ side.clients.calls = 3
  /\ side.clients.built = 2
  /\ Cardinality(side.clients.returned) = 2

\* C31: no two participant rows hold the same post and the same user,
\* whatever joins and leaves were handled
C31_OneSeatPerUser ==
  \A i, j \in DOMAIN lfg_players :
    (/\ lfg_players[i].lfg_post_id = lfg_players[j].lfg_post_id
     /\ lfg_players[i].user_id = lfg_players[j].user_id) => i = j

\* a user who had joined and left has joined again and then pressed Join
\* once more, which was refused
C31_Witness ==
  /\ last.action = "join"
  /\ last.outcome = "already_joined"
  /\ last.user \in everLeft
  /\ last.user \in Seated

C33_NoGuildTwice ==
  LET targets == side.fanOut.targets
  IN \A i, j \in DOMAIN targets :
       targets[i].guildId = targets[j].guildId => i = j

\* C34: a post that is not terminal has its creator among its participants
\* and has at least one participant and at most as many as its seat limit
C34_CreatorStaysSeated ==
  Live =>
    /\ \E i \in DOMAIN lfg_players :
         /\ lfg_players[i].lfg_post_id = ThePost.id
         /\ lfg_players[i].user_id = ThePost.creator_id
    /\ Rows >= 1
    /\ Rows <= ThePost.max_players

\* every other participant has left the live post and the creator's own
\* Leave was refused: the creator is alone in it
C34_Witness ==
  /\ Live
  /\ everLeft # {}
  /\ last = Event(CreatorId, "leave", "host_cannot_leave", 0)
  /\ Seated = {CreatorId}

\* C35: whatever joins and leaves a post sees, the side effects of a fill
\* (the room request, the direct messages, the timer of the teardown) are
\* started at most once
C35_FillAtMostOnce ==
  /\ roomCalls <= 1
  /\ Cardinality({m.fill : m \in dmLog}) <= 1

\* C36: when the side effects of a fill start (the roster is read and the
\* room is requested), the post is not terminal and holds as many
\* participants as its seat limit
C36_FillOnLiveFullPost ==
  [][roomCalls' # roomCalls =>
       /\ Live
       /\ Rows = ThePost.max_players]_vars

\* C37: when a post is terminal after a Cancel, the fan-out of its card has
\* returned and no handler is suspended, a delete has been issued for every
\* copy of the card that was delivered
C37_NoOrphanedCopy ==
  (/\ Terminal
   /\ "cancel" \in teardowns
   /\ bc.pc = "done"
   /\ h = EmptyBag) =>
     \A k \in DOMAIN bc.results :
       \E d \in deleteIssued :
         /\ d.guildId = bc.results[k].guildId
         /\ d.channelId = bc.results[k].channelId
         /\ d.messageId = bc.results[k].messageId

\* C38: however calls of ensureWebhook on one channel interleave, none adds
\* a webhook of the bot to a channel that holds one already, so a channel
\* that started with at most one ends with at most one
C38_OneOwnedEndpoint ==
  [][Cardinality(OwnedIn(webhooks')) > Cardinality(OwnedIn(webhooks)) =>
       OwnedIn(webhooks) = {}]_vars

\* C39: every relayed copy comes from a message that neither a bot nor a
\* webhook wrote, lies in another guild than that message, and is the only
\* copy of it in its guild; so no copy is relayed again and none goes back
\* to the guild of the user's post
C39_RelayNeverLoops ==
  LET M == side.relay.messages
      Copies == {k \in DOMAIN M : M[k].via # 0}
  IN /\ \A k \in Copies :
          /\ ~M[M[k].via].bot
          /\ ~M[M[k].via].webhookId
          /\ M[M[k].via].via = 0
          /\ M[k].guildId # M[M[k].via].guildId
          /\ M[k].guildId # M[M[k].origin].guildId
     /\ \A k1, k2 \in Copies :
          (M[k1].origin = M[k2].origin /\ M[k1].guildId = M[k2].guildId)
            => k1 = k2

\* a user's message was relayed to the two other guilds, and MessageCreate
\* has been handled for both copies without any further copy
C39_Witness ==
  LET M == side.relay.messages
  IN /\ Len(M) = 3
     /\ side.relay.handled = {1, 2, 3}
     /\ ~M[1].bot
     /\ M[2].via = 1 /\ M[3].via = 1
     /\ M[2].guildId # M[3].guildId

====
